---- MODULE Spec2Model ----
(***************************************************************************)
(* Model of the supervisor agent's orchestration engine                    *)
(* (agents/supervisor/supervisor_agent.py): agent registry, agent          *)
(* selection, task dispatch, the task_response handler with its retry and  *)
(* backoff, the per-dispatch timeout monitors, the workflow executor, the   *)
(* health check loop, the workflow cleanup sweep and the task store.       *)
(*                                                                         *)
(* The supervisor runs on one asyncio event loop: a step of the model is   *)
(* the code a coroutine runs between two points where it really suspends   *)
(* (asyncio.sleep, Redis and MongoDB I/O).  The coroutines are the message *)
(* listener (one, handling one message at a time), one timeout monitor per *)
(* dispatch, one executor per workflow and the HTTP request handlers.      *)
(***************************************************************************)
EXTENDS Integers, Sequences, FiniteSets, TLC

\* ---------------------------------------------------------------- bounds
MaxRegistrations == 2   \* calls of POST /agents/{id}/register in one run
MaxSingleTasks == 2     \* calls of POST /tasks/single in one run
MaxResponses == 2       \* task_response messages the agents publish in one run
MaxRetriesBound == 2    \* largest max_retries given to POST /tasks/single
MaxHealthRounds == 2    \* iterations of _health_check_loop in one run

\* ------------------------------------------------------ program constants
DefaultMaxRetries == 3
DefaultTaskTimeout == 300
ConfidenceThreshold == 8   \* quality_thresholds["confidence_score"], in tenths

\* ------------------------------------------------------------- the domain
Agents == {"A", "B"}
Types == {"fetch", "parse"}
TaskIdSeq == <<"t1", "t2", "t3">>
TaskIds == {TaskIdSeq[i] : i \in 1..Len(TaskIdSeq)}
None == "none"
NoTask == [status |-> "absent"]

PENDING == "pending"
IN_PROGRESS == "in_progress"
COMPLETED == "completed"
FAILED == "failed"
CANCELLED == "cancelled"

Strategies == {"round_robin", "random", "load_balanced", "first"}
AgentStatuses == {"ready", "busy"}
CapabilitySets == {{"fetch"}, {"fetch", "parse"}}
ResponseStatuses == {"completed", "failed", "other"}
SendOutcomes == {"ok", "publish_raises", "store_raises"}

\* results of a task_response payload: None, the empty dict (which
\* payload.get("result", {}) gives for a payload without result), a dict
\* without confidence_score, a dict with a confidence_score (in tenths)
NoResult == [none |-> TRUE]
EmptyResult == [empty |-> TRUE, scores |-> {}]
Unscored == [empty |-> FALSE, scores |-> {}]
Result(c) == [empty |-> FALSE, scores |-> {c}]
Results == {EmptyResult, Unscored, Result(0), Result(5), Result(9)}

NoRequirements == <<>>

NoMessage == <<>>
NoAgentMessage == <<"No suitable agent available">>
UnknownErrorMessage == <<"Unknown error">>
TimeoutMessage(timeout) == <<"Task timed out after", timeout, "seconds">>

\* Workflows (the steps list of POST /workflows); "S9" is an id of no step.
Step(id, ty, deps) ==
    [id |-> id, task_type |-> ty, depends_on |-> deps, parameters |-> <<"parameters of", id>>]
WfFan == <<Step("S1", "fetch", {}), Step("S2", "fetch", {"S1"}), Step("S3", "fetch", {"S1"})>>
WfPair == <<Step("S1", "parse", {}), Step("S2", "fetch", {})>>
WfCycle == <<Step("S1", "fetch", {}), Step("S2", "fetch", {"S3"}), Step("S3", "fetch", {"S2"})>>
WfSelf == <<Step("S1", "fetch", {"S1"})>>
WfMissing == <<Step("S1", "fetch", {}), Step("S2", "fetch", {"S9"})>>
Workflows == {WfFan, WfPair, WfCycle, WfSelf, WfMissing}

VARIABLES
    task_assignment_strategy,  \* config["task_assignment"]
    regOrder,            \* keys of registered_agents / agent_capabilities, in insertion order
    registered_agents,   \* agent -> registry status (None: not registered)
    agent_capabilities,  \* agent -> set of task types
    agent_load,          \* agent -> int (agent_load.get(a, 0))
    active_tasks,        \* task id -> Task record, or NoTask
    watches,             \* task id -> dispatch numbers whose _monitor_task_timeout still sleeps
    requests,            \* ids of the tasks a task_request was published for
    inbox,               \* task_response messages published to the supervisor, not yet handled
    responses,           \* number of task_response messages agents have published
    lpc, ltask,          \* the listener: "idle", or "backoff" inside _handle_task_response of ltask
    workflow,            \* the steps of the created workflow, or <<>> when none was created
    wfStatus,            \* workflow.status (None before the workflow is created)
    wfStored,            \* status of the workflow document in db.workflows
    epc,                 \* position of _execute_workflow
    completed_steps, step_tasks, ready_steps,  \* locals of _execute_workflow
    wfError,             \* the error _execute_workflow logged when it failed the workflow
    registrations,       \* number of register calls so far
    db_tasks,            \* the documents of db.tasks: task id -> stored task, or NoTask
    error_reports,       \* the calls of _send_error_response: the message reported, the
                         \* dispatch of its task that raised, and how the send ended
    active_workflows,    \* ids of the workflows in the in-memory active set
    health,              \* the health checks: rounds of _health_check_loop so far, the agents
                         \* with a health_check published and not answered (probes), and those
                         \* of them whose probe a later round found unanswered (missed)
    hist                 \* history per task: what happened to it (not program state)

registry == <<regOrder, registered_agents, agent_capabilities, agent_load>>
wfvars == <<workflow, wfStatus, wfStored, epc, completed_steps, step_tasks, ready_steps,
            wfError>>
listener == <<lpc, ltask>>
vars == <<task_assignment_strategy, registry, active_tasks, watches, requests, inbox, responses,
          listener, wfvars, registrations, db_tasks, error_reports, active_workflows,
          health, hist>>

\* The history of a task:
\*   dispatches  calls of _assign_and_execute_task that incremented a load for it
\*   owed        dispatch attempts of it that have ended, minus the load
\*               decrements made for it (0: one decrement per ended attempt)
\*   everCompleted   its status has been COMPLETED
\*   answers     "none" before its first dispatch; "open" when its latest dispatch
\*               has no answer yet; "failed" when every dispatch was sent and the
\*               only responses handled for it had status "failed", the latest
\*               after its latest dispatch; "mixed" otherwise
\*   preLoad     load of its agent right before its latest dispatch
\*   idleTimeout a timeout monitor of it woke up when it was COMPLETED or FAILED
\*   step        id of the workflow step it was created for
NoHist == [dispatches |-> 0, owed |-> 0, everCompleted |-> FALSE, answers |-> "none",
           preLoad |-> 0, idleTimeout |-> FALSE, step |-> None]

NoHealth == [rounds |-> 0, probes |-> {}, missed |-> {}]

Max(a, b) == IF a >= b THEN a ELSE b

\* ------------------------------------------------------------- scheduler
IsSuitable_NoStatus(a, ty) ==
    ty \in agent_capabilities[a]

\* lines 380-384: the task type is among the agent's capabilities and the
\* registry status is "ready"
IsSuitable(a, ty) ==
    /\ ty \in agent_capabilities[a]
    /\ registered_agents[a] # None
    /\ registered_agents[a] = "ready"

\* the list suitable_agents, in the iteration order of agent_capabilities
SuitableAgents(ty) ==
    SelectSeq(regOrder, LAMBDA a : IsSuitable(a, ty))

RECURSIVE MinByLoad_Last(_)
MinByLoad_Last(s) ==
    IF Len(s) = 1 THEN s[1]
    ELSE LET m == MinByLoad_Last(Tail(s))
         IN IF agent_load[s[1]] < agent_load[m] THEN s[1] ELSE m

\* min(suitable_agents, key=load): the first element of least load
RECURSIVE MinByLoad(_)
MinByLoad(s) ==
    IF Len(s) = 1 THEN s[1]
    ELSE LET m == MinByLoad(Tail(s))
         IN IF agent_load[s[1]] <= agent_load[m] THEN s[1] ELSE m

\* _select_agent_for_task: the agents the call can return under a strategy
\* (one, but for "random"); None when no agent is suitable
SelectAgent(ty, strategy) ==
    LET s == SuitableAgents(ty)
    IN IF s = <<>> THEN {None}
       ELSE IF strategy = "round_robin" THEN {MinByLoad(s)}
       ELSE IF strategy = "random" THEN {s[i] : i \in 1..Len(s)}
       ELSE IF strategy = "load_balanced" THEN {MinByLoad(s)}
       ELSE {s[1]}

\* -------------------------------------------------------------- registry
Upsert_Append(order, a) == Append(order, a)

\* the keys of a dict after d[a] = ...: a new key goes last, a key the dict
\* has keeps its place
Upsert(order, a) ==
    IF \E i \in 1..Len(order) : order[i] = a THEN order ELSE Append(order, a)

\* _register_agent (lines 506-521)
Register(a, st, cp) ==
    /\ registrations < MaxRegistrations
    /\ registrations' = registrations + 1
    /\ regOrder' = Upsert(regOrder, a)
    /\ registered_agents' = [registered_agents EXCEPT ![a] = st]
    /\ agent_capabilities' = [agent_capabilities EXCEPT ![a] = cp]
    /\ agent_load' = [agent_load EXCEPT ![a] = 0]
    /\ health' = [health EXCEPT !.missed = @ \ {a}]
    /\ UNCHANGED <<db_tasks, error_reports, active_workflows, task_assignment_strategy,
                   active_tasks, watches, requests, inbox, responses,
                   listener, wfvars, hist>>

\* ------------------------------------------------------------ dispatcher
NewTask(ty, maxr, req) ==
    [status |-> PENDING, type |-> ty, assigned_agent |-> None, requirements |-> req,
     result |-> NoResult, error_message |-> NoMessage, retry_count |-> 0,
     max_retries |-> maxr]

\* uuid4(): an id no task has yet
NewTaskId ==
    TaskIdSeq[CHOOSE i \in 1..Len(TaskIdSeq) :
                 /\ active_tasks[TaskIdSeq[i]] = NoTask
                 /\ \A j \in 1..(i - 1) : active_tasks[TaskIdSeq[j]] # NoTask]

TasksCreated == {t \in TaskIds : active_tasks[t] # NoTask}

DecLoad_Keep(load, a) == load

DecLoad_Unclamped(load, a) == [load EXCEPT ![a] = @ - 1]

\* lines 460-462 and 502-504: load[a] = max(0, load.get(a, 0) - 1)
DecLoad(load, a) == [load EXCEPT ![a] = Max(0, @ - 1)]

\* send_message (base/agent.py 182-210) publishes, then stores the audit copy;
\* either call can raise
Published(o) == o \in {"ok", "store_raises"}
Raised(o) == o # "ok"

\* _assign_and_execute_task (lines 333-373) of task t, from the task map `base`
\* and the history `hbase` its caller leaves; `a` is what _select_agent_for_task
\* returned and `o` how send_message ended.
AssignAndExecuteTask(t, base, hbase, a, o) ==
    IF a = None
    THEN /\ active_tasks' = [base EXCEPT ![t].status = FAILED,
                                         ![t].error_message = NoAgentMessage]
         /\ hist' = [hbase EXCEPT ![t].answers = "mixed"]
         /\ UNCHANGED <<agent_load, requests, watches>>
    ELSE /\ active_tasks' = [base EXCEPT ![t].assigned_agent = a,
                                         ![t].status = IN_PROGRESS]
         /\ agent_load' = [agent_load EXCEPT ![a] = @ + 1]
         /\ requests' = IF Published(o) THEN requests \cup {t} ELSE requests
         /\ watches' = [watches EXCEPT
                           ![t] = IF Raised(o) THEN @ ELSE @ \cup {hbase[t].dispatches + 1}]
         /\ hist' = [hbase EXCEPT ![t].dispatches = @ + 1,
                                  ![t].preLoad = agent_load[a],
                                  ![t].answers = IF Raised(o) \/ @ \in {"open", "mixed"}
                                                 THEN "mixed" ELSE "open"]

\* the ways one call of _assign_and_execute_task can go: the agent selected and
\* the outcome of the send (no send when no agent is selected)
Dispatches(ty) ==
    {<<a, o>> \in SelectAgent(ty, task_assignment_strategy) \X SendOutcomes :
        a = None => o = "ok"}

\* POST /tasks/single -> _create_task (lines 229-252); a raising send is
\* answered with HTTP 500
CreateSingleTask(ty, maxr) ==
    /\ wfStatus = None
    /\ Cardinality(TasksCreated) < MaxSingleTasks
    /\ LET t == NewTaskId
           task == NewTask(ty, maxr, NoRequirements)
       IN /\ db_tasks' = [db_tasks EXCEPT ![t] = task]
          /\ \E d \in Dispatches(ty) :
                AssignAndExecuteTask(t, [active_tasks EXCEPT ![t] = task], hist, d[1], d[2])
    /\ UNCHANGED <<health, error_reports, active_workflows, task_assignment_strategy,
                   regOrder, registered_agents, agent_capabilities,
                   inbox, responses, listener, wfvars, registrations>>

\* ------------------------------------------------------- worker agents
\* the task_response of an agent
Response(t, st, res) == [task_id |-> t, status |-> st, result |-> res]

\* an agent that received a task_request publishes a task_response with a result
AgentRespondResult(t, st, res) ==
    /\ t \in requests
    /\ responses < MaxResponses
    /\ Response(t, st, res) \notin inbox
    /\ responses' = responses + 1
    /\ inbox' = inbox \cup {Response(t, st, res)}
    /\ UNCHANGED <<health, db_tasks, error_reports, active_workflows, task_assignment_strategy,
                   registry, active_tasks, watches, requests,
                   listener, wfvars, registrations, hist>>

\* an agent answers; what it completed has a result that passes validation
AgentRespond(t, st) ==
    AgentRespondResult(t, st, IF st = "completed" THEN Result(9) ELSE NoResult)

\* ------------------------------------------------------ response handler
RetryAllowed_Inclusive(task) == task.retry_count <= task.max_retries

\* line 452
RetryAllowed(task) == task.retry_count < task.max_retries

RetryCount_Twice(task) == task.retry_count + 2

\* line 453
RetryCount(task) == task.retry_count + 1

InFlight(task) == IF task.status = IN_PROGRESS THEN 1 ELSE 0

\* line 437: payload.get("result", {})
ResultOf(m) == IF m.result = NoResult THEN EmptyResult ELSE m.result

\* _validate_task_result (lines 471-488): a result that is not empty and whose
\* confidence_score, if it has one that is not 0, is not below the threshold
ValidateTaskResult(task) ==
    /\ task.result # NoResult
    /\ ~task.result.empty
    /\ \A confidence \in task.result.scores :
          ~(confidence # 0 /\ confidence < ConfidenceThreshold)

CompletedTask_Validated(task, m) ==
    LET done == [task EXCEPT !.status = COMPLETED, !.result = ResultOf(m)]
    IN IF ValidateTaskResult(done) THEN done ELSE [task EXCEPT !.result = ResultOf(m)]

\* lines 435-445: the task after a "completed" response; the outcome of the
\* validation is logged and changes nothing
CompletedTask(task, m) ==
    [task EXCEPT !.status = COMPLETED, !.result = ResultOf(m)]

\* _handle_task_response (lines 423-469) up to its first suspension: the whole
\* handler, or with a retry the part before the backoff sleep of line 455
HandleTaskResponse(m) ==
    /\ lpc = "idle"
    /\ m \in inbox
    /\ inbox' = inbox \ {m}
    /\ LET t == m.task_id
           task == active_tasks[t]
       IN IF t \notin TaskIds \/ task = NoTask
          THEN UNCHANGED <<active_tasks, agent_load, hist, listener, db_tasks>>
          ELSE IF m.status = "failed" /\ RetryAllowed(task)
          THEN /\ active_tasks' = [active_tasks EXCEPT
                                      ![t].status = PENDING,
                                      ![t].error_message = UnknownErrorMessage,
                                      ![t].retry_count = RetryCount(task)]
               /\ hist' = [hist EXCEPT ![t].owed = @ + InFlight(task),
                                       ![t].answers = IF @ = "mixed" THEN @ ELSE "failed"]
               /\ lpc' = "backoff"
               /\ ltask' = t
               /\ UNCHANGED <<agent_load, db_tasks>>
          ELSE /\ active_tasks' =
                     [active_tasks EXCEPT
                         ![t] = IF m.status = "completed" THEN CompletedTask(task, m)
                                ELSE IF m.status = "failed"
                                THEN [task EXCEPT !.status = FAILED,
                                                  !.error_message = UnknownErrorMessage]
                                ELSE task]
               /\ db_tasks' = [db_tasks EXCEPT ![t] = active_tasks'[t]]
               /\ agent_load' = IF task.assigned_agent # None
                                THEN DecLoad(agent_load, task.assigned_agent)
                                ELSE agent_load
               /\ hist' = [hist EXCEPT
                              ![t].owed = @ + (IF m.status = "other" THEN 0 ELSE InFlight(task))
                                            - (IF task.assigned_agent # None THEN 1 ELSE 0),
                              ![t].everCompleted = @ \/ m.status = "completed",
                              ![t].answers = IF m.status = "failed" /\ @ # "mixed"
                                             THEN "failed" ELSE "mixed"]
               /\ UNCHANGED listener
    /\ UNCHANGED <<health, error_reports, active_workflows, task_assignment_strategy,
                   regOrder, registered_agents, agent_capabilities,
                   watches, requests, responses, wfvars, registrations>>

\* base/agent.py _handle_message (lines 237-240) and _send_error_response
\* (lines 264-275): the exception of a handler is caught and an error_report
\* for message m is sent to its sender; when that send raises too, the listener
\* catches it (lines 220-222)
SendErrorResponse(m, k, e) ==
    error_reports' = error_reports \cup {[original |-> m, attempt |-> k, outcome |-> e]}

ListenerAfter_Crash(raised) == IF raised THEN "stopped" ELSE "idle"

\* base/agent.py lines 215-222: whether the handler returned or raised, the
\* async for of _listen_for_messages goes on to the next message
ListenerAfter(raised) == "idle"

\* lines 455-457: the backoff sleep is over and the handler dispatches the task
\* again; a raising send leaves the handler through _handle_message's except
RetryDispatch ==
    /\ lpc = "backoff"
    /\ \E d \in Dispatches(active_tasks[ltask].type) :
          /\ AssignAndExecuteTask(ltask, active_tasks, hist, d[1], d[2])
          /\ IF d[1] # None /\ Raised(d[2])
             THEN \E e \in SendOutcomes :
                     SendErrorResponse(Response(ltask, "failed", NoResult),
                                       hist[ltask].dispatches + 1, e)
             ELSE UNCHANGED error_reports
          /\ lpc' = ListenerAfter(d[1] # None /\ Raised(d[2]))
    /\ ltask' = None
    /\ UNCHANGED <<health, db_tasks, active_workflows, task_assignment_strategy,
                   regOrder, registered_agents, agent_capabilities,
                   inbox, responses, wfvars, registrations>>

\* --------------------------------------------------------- timeout monitor
TimeoutApplies_Always(task) == task # NoTask

\* lines 495-496
TimeoutApplies(task) == task # NoTask /\ task.status = IN_PROGRESS

\* _monitor_task_timeout (lines 490-504) after its sleep, for dispatch k of task t
TaskTimeout(t, k) ==
    /\ k \in watches[t]
    /\ watches' = [watches EXCEPT ![t] = @ \ {k}]
    /\ LET task == active_tasks[t]
       IN IF TimeoutApplies(task)
          THEN /\ active_tasks' = [active_tasks EXCEPT
                                      ![t].status = FAILED,
                                      ![t].error_message = TimeoutMessage(DefaultTaskTimeout)]
               /\ agent_load' = IF task.assigned_agent # None
                                THEN DecLoad(agent_load, task.assigned_agent)
                                ELSE agent_load
               /\ hist' = [hist EXCEPT ![t].owed = IF task.assigned_agent # None
                                                   THEN @ ELSE @ + 1]
          ELSE /\ hist' = [hist EXCEPT ![t].idleTimeout =
                                          @ \/ task.status \in {COMPLETED, FAILED}]
               /\ UNCHANGED <<active_tasks, agent_load>>
    /\ UNCHANGED <<health, db_tasks, error_reports, active_workflows, task_assignment_strategy,
                   regOrder, registered_agents, agent_capabilities,
                   requests, inbox, responses, listener, wfvars, registrations>>

\* ---------------------------------------------------------- health checks
\* the answer of base/agent.py _handle_health_check (lines 244-258): a
\* task_response whose payload has the agent's status and no task_id
HealthResponse == Response(None, "ready", NoResult)

\* one iteration of _health_check_loop (lines 523-538): a health_check is sent
\* to the registered agents in turn; a raising send ends the iteration at the
\* agent it was for (n agents were sent one).  The registry is not touched.
HealthCheckLoop(n) ==
    /\ health.rounds < MaxHealthRounds
    /\ n \in 0..Len(regOrder)
    /\ health' = [rounds |-> health.rounds + 1,
                  probes |-> health.probes \cup {regOrder[i] : i \in 1..n},
                  missed |-> health.missed \cup health.probes]
    /\ UNCHANGED <<db_tasks, error_reports, active_workflows, task_assignment_strategy, registry,
                   active_tasks, watches, requests, inbox,
                   responses, listener, wfvars, registrations, hist>>

\* an agent answers the health_check it received
AgentAnswerHealthCheck(a) ==
    /\ a \in health.probes
    /\ HealthResponse \notin inbox
    /\ health' = [health EXCEPT !.probes = @ \ {a}, !.missed = @ \ {a}]
    /\ inbox' = inbox \cup {HealthResponse}
    /\ UNCHANGED <<db_tasks, error_reports, active_workflows, task_assignment_strategy, registry,
                   active_tasks, watches, requests,
                   responses, listener, wfvars, registrations, hist>>

\* ------------------------------------------------------ workflow executor
StepIds(wf) == {wf[i].id : i \in 1..Len(wf)}

\* the step ids that an execution in dependency order gets to: the least set
\* closed under "all of depends_on is in the set"
RECURSIVE Resolvable(_, _)
Resolvable(wf, done) ==
    LET more == {wf[i].id : i \in {j \in 1..Len(wf) : wf[j].depends_on \subseteq done}}
    IN IF more \subseteq done THEN done ELSE Resolvable(wf, done \cup more)

\* the depends_on edges form a directed acyclic graph over the step ids
Acyclic(wf) == Resolvable(wf, {}) = StepIds(wf)

Running(st) == {st[i][1] : i \in 1..Len(st)}

ReadySteps_NoCompleted(wf, completed, running) ==
    SelectSeq(wf, LAMBDA step : /\ step.id \notin Running(running)
                                /\ \A dep \in step.depends_on : dep \in completed)

ReadySteps_NoDeps(wf, completed, running) ==
    SelectSeq(wf, LAMBDA step : step.id \notin completed /\ step.id \notin Running(running))

\* lines 271-275
ReadySteps(wf, completed, running) ==
    SelectSeq(wf, LAMBDA step : /\ step.id \notin completed
                                /\ step.id \notin Running(running)
                                /\ \A dep \in step.depends_on : dep \in completed)

\* uuid4() of the one workflow of a run
WorkflowId == "w1"

Terminal == {COMPLETED, FAILED, CANCELLED}

\* POST /workflows -> _create_workflow (lines 207-227)
CreateWorkflow(wf) ==
    /\ wfStatus = None
    /\ TasksCreated = {}
    /\ workflow' = wf
    /\ wfStatus' = PENDING
    /\ wfStored' = PENDING
    /\ active_workflows' = active_workflows \cup {WorkflowId}
    /\ epc' = "start"
    /\ UNCHANGED <<health, db_tasks, error_reports, task_assignment_strategy,
                   registry, active_tasks, watches, requests, inbox,
                   responses, listener, completed_steps, step_tasks, ready_steps, wfError,
                   registrations, hist>>

\* _execute_workflow, lines 256-266
ExecStart ==
    /\ epc = "start"
    /\ wfStatus' = IN_PROGRESS
    /\ epc' = "pass"
    /\ UNCHANGED <<health, db_tasks, error_reports, active_workflows, task_assignment_strategy,
                   registry, active_tasks, watches, requests, inbox,
                   responses, listener, workflow, wfStored, completed_steps, step_tasks,
                   ready_steps, wfError, registrations, hist>>

\* one test of the outer loop (lines 269-285, 318-324): all steps completed, or
\* the steps to create in this pass, or the circular-dependency exception
ExecPass ==
    /\ epc = "pass"
    /\ IF ~(Cardinality(completed_steps) < Len(workflow))
       THEN /\ wfStatus' = COMPLETED
            /\ epc' = "finally"
            /\ UNCHANGED <<ready_steps, wfError>>
       ELSE LET ready == ReadySteps(workflow, completed_steps, step_tasks)
            IN IF ready = <<>>
               THEN IF step_tasks # <<>>
                    THEN UNCHANGED <<wfStatus, epc, ready_steps, wfError>>
                    ELSE /\ wfStatus' = FAILED
                         /\ wfError' = "Circular dependency detected in workflow"
                         /\ epc' = "finally"
                         /\ UNCHANGED ready_steps
               ELSE /\ ready_steps' = ready
                    /\ epc' = "create"
                    /\ UNCHANGED <<wfStatus, wfError>>
    /\ UNCHANGED <<health, db_tasks, error_reports, active_workflows, task_assignment_strategy,
                   registry, active_tasks, watches, requests, inbox,
                   responses, listener, workflow, wfStored, completed_steps, step_tasks,
                   registrations, hist>>

\* lines 289-297: the task of a step
NewStepTask(step) == NewTask(step.task_type, DefaultMaxRetries, step.parameters)

\* lines 288-298: _create_task for the next ready step; an exception of the send
\* is caught at line 322
ExecCreate ==
    /\ epc = "create"
    /\ LET step == Head(ready_steps)
           t == NewTaskId
       IN \E d \in Dispatches(step.task_type) :
            /\ db_tasks' = [db_tasks EXCEPT ![t] = NewStepTask(step)]
            /\ AssignAndExecuteTask(
                   t, [active_tasks EXCEPT ![t] = NewStepTask(step)],
                   [hist EXCEPT ![t].step = step.id], d[1], d[2])
            /\ IF d[1] # None /\ Raised(d[2])
               THEN /\ wfStatus' = FAILED
                    /\ wfError' = "send_message raised"
                    /\ epc' = "finally"
                    /\ UNCHANGED <<step_tasks, ready_steps>>
               ELSE /\ step_tasks' = Append(step_tasks, <<step.id, t>>)
                    /\ ready_steps' = Tail(ready_steps)
                    /\ epc' = IF Tail(ready_steps) = <<>> THEN "wait" ELSE "create"
                    /\ UNCHANGED <<wfStatus, wfError>>
    /\ UNCHANGED <<health, error_reports, active_workflows, task_assignment_strategy,
                   regOrder, registered_agents, agent_capabilities,
                   inbox, responses, listener, workflow, wfStored, completed_steps, registrations>>

\* one pass of the for loop of lines 302-313 over step_tasks, in its order:
\* completed steps move to completed_steps, the first failed one stops the pass
RECURSIVE PollPass(_, _, _)
PollPass(todo, completed, running) ==
    IF todo = <<>>
    THEN [failed |-> FALSE, completed |-> completed, running |-> running]
    ELSE LET e == Head(todo)
             task == active_tasks[e[2]]
         IN IF task # NoTask /\ task.status = COMPLETED
            THEN PollPass(Tail(todo), completed \cup {e[1]},
                          SelectSeq(running, LAMBDA x : x # e))
            ELSE IF task # NoTask /\ task.status = FAILED
            THEN [failed |-> TRUE, completed |-> completed, running |-> running]
            ELSE PollPass(Tail(todo), completed, running)

\* lines 301-316: one poll of the running tasks
ExecPoll ==
    /\ epc = "wait"
    /\ LET r == PollPass(step_tasks, completed_steps, step_tasks)
       IN IF r.failed
          THEN /\ wfStatus' = FAILED
               /\ wfError' = "step failed"
               /\ epc' = "finally"
               /\ UNCHANGED <<completed_steps, step_tasks>>
          ELSE /\ completed_steps' = r.completed
               /\ step_tasks' = r.running
               /\ epc' = IF r.running = <<>> THEN "pass" ELSE "wait"
               /\ UNCHANGED <<wfStatus, wfError>>
    /\ UNCHANGED <<health, db_tasks, error_reports, active_workflows, task_assignment_strategy,
                   registry, active_tasks, watches, requests, inbox,
                   responses, listener, workflow, wfStored, ready_steps, registrations, hist>>

\* lines 326-331
ExecFinally ==
    /\ epc = "finally"
    /\ wfStored' = wfStatus
    /\ epc' = "done"
    /\ UNCHANGED <<health, db_tasks, error_reports, active_workflows, task_assignment_strategy,
                   registry, active_tasks, watches, requests, inbox,
                   responses, listener, workflow, wfStatus, completed_steps, step_tasks,
                   ready_steps, wfError, registrations, hist>>

Evictable_Any(status) == TRUE

\* lines 546-549: the workflows the sweep collects
Evictable(status) == status \in Terminal

\* _workflow_processor (lines 540-557): one sweep over the active workflows
WorkflowProcessor ==
    /\ active_workflows # {}
    /\ active_workflows' = {w \in active_workflows : ~Evictable(wfStatus)}
    /\ UNCHANGED <<health, db_tasks, error_reports, task_assignment_strategy,
                   registry, active_tasks, watches, requests, inbox,
                   responses, listener, wfvars, registrations, hist>>

\* ------------------------------------------------------ the specification
\* SupervisorAgent.__init__ (lines 79-107)
Init ==
    /\ task_assignment_strategy \in Strategies
    /\ regOrder = <<>>
    /\ registered_agents = [a \in Agents |-> None]
    /\ agent_capabilities = [a \in Agents |-> {}]
    /\ agent_load = [a \in Agents |-> 0]
    /\ active_tasks = [t \in TaskIds |-> NoTask]
    /\ watches = [t \in TaskIds |-> {}]
    /\ requests = {}
    /\ inbox = {}
    /\ responses = 0
    /\ lpc = "idle"
    /\ ltask = None
    /\ workflow = <<>>
    /\ wfStatus = None
    /\ wfStored = None
    /\ epc = "none"
    /\ completed_steps = {}
    /\ step_tasks = <<>>
    /\ ready_steps = <<>>
    /\ wfError = None
    /\ registrations = 0
    /\ db_tasks = [t \in TaskIds |-> NoTask]
    /\ error_reports = {}
    /\ active_workflows = {}
    /\ health = NoHealth
    /\ hist = [t \in TaskIds |-> NoHist]

\* the supervisor's own steps: listener, timeout monitors
Supervisor ==
    \/ \E m \in inbox : HandleTaskResponse(m)
    \/ RetryDispatch
    \/ \E t \in TaskIds : \E k \in watches[t] : TaskTimeout(t, k)

\* One single task: agents register, a client posts a task, agents answer
Next ==
    \/ \E a \in Agents, st \in AgentStatuses, cp \in CapabilitySets : Register(a, st, cp)
    \/ \E ty \in Types, maxr \in 0..MaxRetriesBound :
          TasksCreated = {} /\ CreateSingleTask(ty, maxr)
    \/ \E t \in TaskIds, st \in ResponseStatuses : AgentRespond(t, st)
    \/ Supervisor

Spec == Init /\ [][Next]_vars

\* Several single tasks on agents that never answer: agents register, clients
\* post tasks, the timeout monitors wake up
NextSilent ==
    \/ \E a \in Agents, st \in AgentStatuses, cp \in CapabilitySets : Register(a, st, cp)
    \/ \E ty \in Types : CreateSingleTask(ty, DefaultMaxRetries)
    \/ \E t \in TaskIds : \E k \in watches[t] : TaskTimeout(t, k)

SpecSilent == Init /\ [][NextSilent]_vars

\* Workflows: the registry after the agents registered
\* (A, then B; or A alone, which leaves "parse" tasks without an agent)
InitWorkflow ==
    /\ task_assignment_strategy = "round_robin"
    /\ \/ /\ regOrder = <<"A", "B">>
          /\ registered_agents = [a \in Agents |-> "ready"]
          /\ agent_capabilities = [a \in Agents |-> IF a = "A" THEN {"fetch", "parse"}
                                                    ELSE {"fetch"}]
       \/ /\ regOrder = <<"A">>
          /\ registered_agents = [a \in Agents |-> IF a = "A" THEN "ready" ELSE None]
          /\ agent_capabilities = [a \in Agents |-> IF a = "A" THEN {"fetch"} ELSE {}]
    /\ agent_load = [a \in Agents |-> 0]
    /\ active_tasks = [t \in TaskIds |-> NoTask]
    /\ watches = [t \in TaskIds |-> {}]
    /\ requests = {}
    /\ inbox = {}
    /\ responses = 0
    /\ lpc = "idle"
    /\ ltask = None
    /\ workflow = <<>>
    /\ wfStatus = None
    /\ wfStored = None
    /\ epc = "none"
    /\ completed_steps = {}
    /\ step_tasks = <<>>
    /\ ready_steps = <<>>
    /\ wfError = None
    /\ registrations = Len(regOrder)
    /\ db_tasks = [t \in TaskIds |-> NoTask]
    /\ error_reports = {}
    /\ active_workflows = {}
    /\ health = NoHealth
    /\ hist = [t \in TaskIds |-> NoHist]

Executor ==
    \/ ExecStart
    \/ ExecPass
    \/ ExecCreate
    \/ ExecPoll
    \/ ExecFinally

NextWorkflow ==
    \/ \E wf \in Workflows : CreateWorkflow(wf)
    \/ Executor
    \/ WorkflowProcessor
    \/ \E t \in TaskIds, st \in ResponseStatuses : AgentRespond(t, st)
    \/ Supervisor

SpecWorkflow == InitWorkflow /\ [][NextWorkflow]_vars

\* Health checks: agents register, a client posts a task, the health check loop
\* probes the agents, which answer or stay silent
NextHealth ==
    \/ \E a \in Agents, st \in AgentStatuses, cp \in CapabilitySets : Register(a, st, cp)
    \/ \E ty \in Types : TasksCreated = {} /\ CreateSingleTask(ty, DefaultMaxRetries)
    \/ \E n \in 0..Len(regOrder) : HealthCheckLoop(n)
    \/ \E a \in Agents : AgentAnswerHealthCheck(a)
    \/ \E m \in inbox : HandleTaskResponse(m)

SpecHealth == Init /\ [][NextHealth]_vars

\* Result quality: agents register, a client posts a task, the agent answers
\* "completed" with some result or without one, the timeout monitor wakes up
NextQuality ==
    \/ \E a \in Agents, st \in AgentStatuses, cp \in CapabilitySets : Register(a, st, cp)
    \/ \E ty \in Types : TasksCreated = {} /\ CreateSingleTask(ty, DefaultMaxRetries)
    \/ \E t \in TaskIds, res \in Results \cup {NoResult} : AgentRespondResult(t, "completed", res)
    \/ \E m \in inbox : HandleTaskResponse(m)
    \/ \E t \in TaskIds : \E k \in watches[t] : TaskTimeout(t, k)

SpecQuality == Init /\ [][NextQuality]_vars

\* ================================================================ claims

Status(t) == active_tasks[t].status

\* C1: every dispatch attempt that incremented an agent's load is followed by
\* exactly one decrement of that load when the attempt ends (completed, failed
\* with or without retry, timeout), never by none and never by two: for every
\* task the attempts that ended and the decrements made for it balance.
C1_LoadDecrementedOncePerAttempt ==
    \A t \in TasksCreated : hist[t].owed = 0

\* C2: a task with max_retries = N is dispatched at most N + 1 times, whatever
\* responses and timeouts arrive; and when each of its attempts was answered
\* "failed" it has been dispatched exactly N + 1 times once it is FAILED, with
\* retry_count = N.
C2_DispatchBudget ==
    \A t \in TasksCreated :
        /\ hist[t].dispatches <= active_tasks[t].max_retries + 1
        /\ (Status(t) = FAILED /\ hist[t].answers = "failed")
              => /\ hist[t].dispatches = active_tasks[t].max_retries + 1
                 /\ active_tasks[t].retry_count = active_tasks[t].max_retries

\* a task with max_retries >= 1 whose every attempt was answered "failed"
C2_Witness ==
    \E t \in TasksCreated :
        /\ Status(t) = FAILED
        /\ hist[t].answers = "failed"
        /\ active_tasks[t].max_retries >= 1
        /\ hist[t].dispatches = active_tasks[t].max_retries + 1

\* the step is the wake-up of a timeout monitor of task t
TimeoutWakes(t) == watches'[t] # watches[t] /\ watches'[t] \subseteq watches[t]

\* C7: a timeout monitor that wakes up when its task is COMPLETED or FAILED
\* changes neither the task (status, error_message, ...) nor any agent's load.
C7_TimeoutLeavesTerminalTask ==
    [][\A t \in TaskIds :
          (TimeoutWakes(t) /\ Status(t) \in {COMPLETED, FAILED})
             => /\ active_tasks'[t] = active_tasks[t]
                /\ agent_load' = agent_load]_vars

\* a monitor woke up on a task that a response had completed before
C7_Witness ==
    \E t \in TasksCreated :
        /\ hist[t].idleTimeout
        /\ Status(t) = COMPLETED
        /\ active_tasks[t].error_message = NoMessage

\* C8: when the timeout monitor of a task wakes up and the task is still
\* IN_PROGRESS (its agent never answered), the task becomes FAILED with the
\* message "Task timed out after N seconds", the agent's load goes from its
\* value after the dispatch back to its value before the dispatch, and the task
\* is not dispatched again: it is not retried, and once timed out it stays as
\* it is.
C8_TimeoutFailsSilentTask ==
    [][\A t \in TasksCreated :
          /\ (TimeoutWakes(t) /\ Status(t) = IN_PROGRESS)
                => LET a == active_tasks[t].assigned_agent
                   IN /\ active_tasks'[t].status = FAILED
                      /\ active_tasks'[t].error_message = TimeoutMessage(DefaultTaskTimeout)
                      /\ active_tasks'[t].retry_count = active_tasks[t].retry_count
                      /\ hist'[t].dispatches = hist[t].dispatches
                      /\ agent_load[a] = hist[t].preLoad + 1
                            => agent_load'[a] = hist[t].preLoad
          /\ (Status(t) = FAILED
                /\ active_tasks[t].error_message = TimeoutMessage(DefaultTaskTimeout))
                => /\ active_tasks'[t] = active_tasks[t]
                   /\ hist'[t].dispatches = hist[t].dispatches]_vars

\* a task timed out on an agent that had another task in flight before the
\* dispatch, and the agent's load is back at its value before the dispatch
C8_Witness ==
    \E t \in TasksCreated :
        /\ Status(t) = FAILED
        /\ active_tasks[t].error_message = TimeoutMessage(DefaultTaskTimeout)
        /\ hist[t].preLoad >= 1
        /\ hist[t].dispatches = 1
        /\ agent_load[active_tasks[t].assigned_agent] = hist[t].preLoad

\* the registered agents able to serve a task type: capability and status "ready"
Eligible(ty) ==
    {a \in Agents : /\ \E i \in 1..Len(regOrder) : regOrder[i] = a
                    /\ ty \in agent_capabilities[a]
                    /\ registered_agents[a] = "ready"}

\* position of a registered agent in the order of first registrations
RegisteredAt(a) == CHOOSE i \in 1..Len(regOrder) : regOrder[i] = a

\* C9: under every strategy selectAgent returns only agents whose capability
\* set contains the task type and whose status is "ready", and returns none
\* exactly when no registered agent is such.
C9_SelectsOnlyEligible ==
    \A ty \in Types, strategy \in Strategies :
        \A r \in SelectAgent(ty, strategy) :
            /\ r # None => r \in Eligible(ty)
            /\ r = None <=> Eligible(ty) = {}

\* a task was given to the second registered agent although the first
\* registered one has the capability: the first is not "ready"
C9_Witness ==
    \E t \in TasksCreated :
        /\ Len(regOrder) = 2
        /\ registrations = 2
        /\ active_tasks[t].assigned_agent = regOrder[2]
        /\ active_tasks[t].type \in agent_capabilities[regOrder[1]]
        /\ registered_agents[regOrder[1]] = "busy"
        /\ SelectAgent(active_tasks[t].type, task_assignment_strategy) = {regOrder[2]}

\* C10: under "load_balanced" selectAgent returns one agent, an eligible agent
\* of minimum load and among those of minimum load the earliest registered,
\* so that it is a function of the registry snapshot.
C10_LeastLoadedEarliest ==
    \A ty \in Types :
        Eligible(ty) # {} =>
            \E a \in Eligible(ty) :
                /\ SelectAgent(ty, "load_balanced") = {a}
                /\ \A b \in Eligible(ty) :
                      /\ agent_load[a] <= agent_load[b]
                      /\ agent_load[a] = agent_load[b] => RegisteredAt(a) <= RegisteredAt(b)

\* the scenario: A with load 0 and B with load 2, B registered first, both
\* serving "fetch": A is selected; and two agents of equal load
C10_Witness ==
    /\ regOrder = <<"B", "A">>
    /\ Eligible("fetch") = {"A", "B"}
    /\ agent_load["A"] = 0
    /\ agent_load["B"] = 2
    /\ SelectAgent("fetch", "load_balanced") = {"A"}

\* the step creates task t
Creates(t) == active_tasks[t] = NoTask /\ active_tasks'[t] # NoTask

\* C11: under "round_robin", two consecutive selections for a task type with
\* two eligible agents pick the two agents, whatever their loads: after a task
\* of the type was dispatched to one of them, the next selection for the type
\* (the set of eligible agents being the same) returns the other one.
C11_RoundRobinRotates ==
    [][\A t \in TaskIds, ty \in Types :
          (/\ Creates(t)
           /\ task_assignment_strategy = "round_robin"
           /\ active_tasks'[t].type = ty
           /\ active_tasks'[t].assigned_agent # None
           /\ Cardinality(Eligible(ty)) = 2
           /\ Eligible(ty)' = Eligible(ty))
             => SelectAgent(ty, "round_robin")' # {active_tasks'[t].assigned_agent}]_vars

\* the task failed at scheduling time for want of an eligible agent
FailedNoAgent(task) ==
    task # NoTask /\ task.status = FAILED /\ task.error_message = NoAgentMessage

\* C12: the scheduling of a task that finds no eligible agent marks the task
\* FAILED with the error "No suitable agent available" and changes no agent's
\* load, sends no message and starts no retry (retry_count and the number of
\* dispatches stay); and while the task is in that state it is not retried:
\* its retry_count does not change and it is not dispatched.
C12_NoAgentFailsWithoutRetry ==
    [][\A t \in TaskIds :
          /\ (~FailedNoAgent(active_tasks[t]) /\ FailedNoAgent(active_tasks'[t]))
                => /\ agent_load' = agent_load
                   /\ requests' = requests
                   /\ watches' = watches
                   /\ hist'[t].dispatches = hist[t].dispatches
                   /\ active_tasks'[t].retry_count =
                         (IF Creates(t) THEN 0 ELSE active_tasks[t].retry_count)
          /\ FailedNoAgent(active_tasks[t])
                => /\ active_tasks'[t].retry_count = active_tasks[t].retry_count
                   /\ active_tasks'[t].status \notin {PENDING, IN_PROGRESS}
                   /\ hist'[t].dispatches = hist[t].dispatches]_vars

\* C13: a task is never left IN_PROGRESS without the timeout monitor of its
\* latest dispatch running, as a send that raises would leave it if the task
\* were not marked FAILED at once.
C13_SendFailureFailsTask ==
    \A t \in TasksCreated :
        Status(t) = IN_PROGRESS => hist[t].dispatches \in watches[t]

\* C14: a task changes status only along the task state machine: PENDING to
\* IN_PROGRESS, IN_PROGRESS to COMPLETED or to FAILED, FAILED to PENDING with
\* a retry budget left (a response handled in one step may take the task from
\* IN_PROGRESS through FAILED to PENDING); a COMPLETED task keeps its status
\* and a task FAILED by timeout never becomes COMPLETED.
C14_StatusFollowsStateMachine ==
    [][\A t \in TasksCreated :
          \/ Status(t)' = Status(t)
          \/ Status(t) = PENDING /\ Status(t)' = IN_PROGRESS
          \/ Status(t) = PENDING /\ Status(t)' = FAILED
                              /\ active_tasks'[t].error_message = NoAgentMessage
          \/ Status(t) = IN_PROGRESS /\ Status(t)' \in {COMPLETED, FAILED}
          \/ /\ Status(t) \in {IN_PROGRESS, FAILED}
             /\ Status(t)' = PENDING
             /\ RetryAllowed(active_tasks[t])]_vars

\* C15: a task has an assigned_agent exactly when it has been dispatched and
\* its status is IN_PROGRESS, COMPLETED or FAILED; a PENDING task has none.
C15_AssignedAgentIffDispatched ==
    \A t \in TasksCreated :
        active_tasks[t].assigned_agent # None
            <=> /\ Status(t) \in {IN_PROGRESS, COMPLETED, FAILED}
                /\ hist[t].dispatches >= 1

\* the step is the failure handler at work on a "failed" response for task t,
\* up to its backoff sleep
FailureHandlerRetries(t) ==
    /\ \E m \in inbox \ inbox' : m.task_id = t /\ m.status = "failed"
    /\ lpc = "idle" /\ lpc' = "backoff" /\ ltask' = t

\* C16: a task becomes PENDING again only in the failure handler and with
\* retry_count < max_retries; that step increments retry_count by one and no
\* other step changes retry_count; retry_count never exceeds max_retries.
C16_RetryCountDiscipline ==
    /\ [](\A t \in TasksCreated : active_tasks[t].retry_count <= active_tasks[t].max_retries)
    /\ [][\A t \in TasksCreated :
             /\ active_tasks'[t].retry_count >= active_tasks[t].retry_count
             /\ (Status(t) # PENDING /\ Status(t)' = PENDING)
                   => /\ FailureHandlerRetries(t)
                      /\ active_tasks[t].retry_count < active_tasks[t].max_retries
                      /\ active_tasks'[t].retry_count = active_tasks[t].retry_count + 1
             /\ active_tasks'[t].retry_count # active_tasks[t].retry_count
                   => Status(t) # PENDING /\ Status(t)' = PENDING]_vars

\* a task went twice through the retry cycle and used its budget up
C16_Witness ==
    \E t \in TasksCreated :
        /\ active_tasks[t].retry_count = 2
        /\ active_tasks[t].max_retries = 2
        /\ hist[t].dispatches = 3

\* C17: no agent's load is ever negative; a decrement of a load of 0 leaves 0.
C17_LoadNeverNegative ==
    \A a \in Agents : agent_load[a] >= 0

\* the load of an agent that never registered again was incremented once and
\* decremented twice for one task: the second decrement found the load at 0
C17_Witness ==
    \E t \in TasksCreated :
        /\ registrations = 1
        /\ hist[t].dispatches = 1
        /\ hist[t].owed = -1
        /\ Status(t) = COMPLETED
        /\ agent_load[active_tasks[t].assigned_agent] = 0

\* the tasks in flight on an agent
InFlightOn(a) ==
    {t \in TasksCreated : Status(t) = IN_PROGRESS /\ active_tasks[t].assigned_agent = a}

\* C18: every agent's load is the number of IN_PROGRESS tasks assigned to it.
C18_LoadCountsInFlightTasks ==
    \A a \in Agents : agent_load[a] = Cardinality(InFlightOn(a))

\* the registry without agent a
Others(order, a) == SelectSeq(order, LAMBDA b : b # a)

\* C19: a call register(a, info) leaves exactly one record for a, with the
\* status and the capability set of info and load 0, whether or not a was
\* registered, and leaves the records, capabilities, loads and order of the
\* other agents as they were.
C19_RegisterUpserts ==
    [][\A a \in Agents, st \in AgentStatuses, cp \in CapabilitySets :
          Register(a, st, cp)
             => /\ Cardinality({i \in 1..Len(regOrder') : regOrder'[i] = a}) = 1
                /\ registered_agents'[a] = st
                /\ agent_capabilities'[a] = cp
                /\ agent_load'[a] = 0
                /\ Others(regOrder', a) = Others(regOrder, a)
                /\ \A b \in Agents \ {a} :
                      /\ registered_agents'[b] = registered_agents[b]
                      /\ agent_capabilities'[b] = agent_capabilities[b]
                      /\ agent_load'[b] = agent_load[b]]_vars

\* an agent with a task in flight registered a second time
C19_Witness ==
    /\ registrations = 2
    /\ Len(regOrder) = 1
    /\ InFlightOn(regOrder[1]) # {}
    /\ agent_load[regOrder[1]] = 0

\* ------------------------------------------------------- workflow claims
\* the tasks created for the steps of the workflow
StepTasks == {t \in TasksCreated : hist[t].step # None}
TasksOfStep(id) == {t \in StepTasks : hist[t].step = id}
DependsOn(id) == UNION {workflow[i].depends_on : i \in {j \in 1..Len(workflow) : workflow[j].id = id}}

\* nothing is left to happen to the tasks: the executor returned, no response
\* waits, the listener is idle and every timeout monitor has woken up
Settled ==
    /\ epc = "done"
    /\ inbox = {}
    /\ lpc = "idle"
    /\ \A t \in TaskIds : watches[t] = {}

AllStepsCompleted ==
    \A id \in StepIds(workflow) :
        /\ TasksOfStep(id) # {}
        /\ \A t \in TasksOfStep(id) : Status(t) = COMPLETED

SomeStepFailed == \E t \in StepTasks : Status(t) = FAILED

\* C3: for an acyclic workflow, the workflow ends COMPLETED exactly when every
\* step's task ends COMPLETED and ends FAILED exactly when some step's task ends
\* FAILED.
C3_WorkflowOutcomeMatchesSteps ==
    (Settled /\ wfStatus # None /\ Acyclic(workflow)) =>
        /\ wfStatus = COMPLETED <=> AllStepsCompleted
        /\ wfStatus = FAILED <=> SomeStepFailed

\* C5: a task exists for a step only if the task of every step in the step's
\* depends_on has been COMPLETED.
C5_StepsWaitForDependencies ==
    \A t \in StepTasks :
        \A dep \in DependsOn(hist[t].step) :
            \E u \in TasksOfStep(dep) : hist[u].everCompleted

\* tasks exist for two steps that depend on a third
C5_Witness ==
    \E t, u \in StepTasks :
        /\ t # u
        /\ DependsOn(hist[t].step) # {}
        /\ DependsOn(hist[u].step) # {}

\* C6: in a state where the task of a step is FAILED no task is created for a
\* further step of the workflow.
C6_NoStepAfterFailure ==
    [][SomeStepFailed => StepTasks' = StepTasks]_vars

\* The event loop runs every coroutine that can run: the executor's next step
\* (its polls sleep one second), the listener's handling of a received message
\* and the end of its backoff sleep, and the wake-up of each timeout monitor.
\* Nothing obliges clients or agents to act.
FairWorkflow ==
    /\ WF_vars(Executor)
    /\ WF_vars(\E m \in inbox : HandleTaskResponse(m))
    /\ WF_vars(RetryDispatch)
    /\ \A t \in TaskIds : WF_vars(\E k \in watches[t] : TaskTimeout(t, k))

SpecWorkflowFair == InitWorkflow /\ [][NextWorkflow]_vars /\ FairWorkflow

\* C4: the execution of a workflow whose depends_on edges contain a cycle, or
\* name a step that does not exist, ends with the workflow FAILED; the
\* executor does not poll forever.
C4_CyclicWorkflowFails ==
    (wfStatus # None /\ ~Acyclic(workflow)) ~> (wfStatus = FAILED)

\* ---------------------------------------------------------- health claims
\* C20: an agent whose health probe is still unanswered when the grace window
\* is over (here: when the next round of probes starts) has registry status
\* "error" and is not returned by selectAgent, under any strategy, until it
\* registers again or answers.
C20_SilentAgentIneligible ==
    \A a \in health.missed :
        /\ registered_agents[a] = "error"
        /\ \A ty \in Types, strategy \in Strategies : a \notin SelectAgent(ty, strategy)

\* ------------------------------------------------------- listener claims
\* the step is the end of a "failed" handler whose re-dispatch raised: the
\* task was dispatched once more and no timeout monitor was started for it
HandlerRaises ==
    /\ lpc = "backoff"
    /\ lpc' # "backoff"
    /\ hist'[ltask].dispatches = hist[ltask].dispatches + 1
    /\ hist'[ltask].dispatches \notin watches'[ltask]

\* C21: when a message handler raises, an error_report for the message it was
\* handling is sent to the message's sender, and the listener goes on: it is
\* never stopped, and is ready for the next message right after the exception.
C21_HandlerExceptionReported ==
    /\ [](lpc \in {"idle", "backoff"})
    /\ [][HandlerRaises
             => /\ lpc' = "idle"
                /\ \E e \in SendOutcomes :
                      [original |-> Response(ltask, "failed", NoResult),
                       attempt |-> hist'[ltask].dispatches,
                       outcome |-> e] \in error_reports' \ error_reports]_vars

\* the re-dispatch of a task raised inside the handler, the error_report was
\* published, and the listener then handled the "completed" response of the task
C21_Witness ==
    \E t \in TasksCreated :
        /\ [original |-> Response(t, "failed", NoResult),
            attempt |-> hist[t].dispatches,
            outcome |-> "ok"] \in error_reports
        /\ Status(t) = COMPLETED
        /\ lpc = "idle"

\* C22: a timeout of a task with retry_count < max_retries starts a retry (the
\* task becomes PENDING and retry_count is incremented); only a timeout with
\* the budget used up leaves the task FAILED.
C22_TimeoutIsRetried ==
    [][\A t \in TasksCreated :
          (TimeoutWakes(t) /\ Status(t) = IN_PROGRESS)
             => IF active_tasks[t].retry_count < active_tasks[t].max_retries
                THEN /\ Status(t)' = PENDING
                     /\ active_tasks'[t].retry_count = active_tasks[t].retry_count + 1
                ELSE Status(t)' = FAILED]_vars

\* ---------------------------------------------------------- store claims
\* the fields of a task that the store is compared on
Persisted(task) ==
    [status |-> task.status, assigned_agent |-> task.assigned_agent,
     error_message |-> task.error_message, retry_count |-> task.retry_count]

\* C23: whenever no operation on a task is in progress (the response handler
\* is not inside its backoff for it), the document of the task in db.tasks has
\* the status, assigned_agent, error_message and retry_count of the task in
\* memory.
C23_StoreMatchesMemory ==
    \A t \in TasksCreated :
        ~(lpc = "backoff" /\ ltask = t)
            => /\ db_tasks[t] # NoTask
               /\ Persisted(db_tasks[t]) = Persisted(active_tasks[t])

\* the event loop also runs the sweep of _workflow_processor every 5 seconds
FairCleanup == FairWorkflow /\ WF_vars(WorkflowProcessor)

SpecWorkflowCleanup == InitWorkflow /\ [][NextWorkflow]_vars /\ FairCleanup

\* C24: the sweep removes a workflow from the active set only when its status
\* is COMPLETED, FAILED or CANCELLED; a workflow that got such a status is
\* eventually out of the active set; and once the executor has returned, the
\* stored workflow has the status of the workflow in memory.
C24_TerminalWorkflowsEvicted ==
    /\ [][(WorkflowId \in active_workflows /\ WorkflowId \notin active_workflows')
             => wfStatus \in Terminal]_vars
    /\ (wfStatus \in Terminal) ~> (WorkflowId \notin active_workflows)
    /\ []((wfStatus \in Terminal) => <>(wfStored = wfStatus))
    /\ [](epc = "done" => (wfStatus \in Terminal /\ wfStored = wfStatus))

\* a workflow that completed was swept out and its stored copy is COMPLETED
C24_Witness ==
    /\ wfStatus = COMPLETED
    /\ wfStored = COMPLETED
    /\ workflow # <<>>
    /\ active_workflows = {}

\* --------------------------------------------------------- quality claims
\* C25: the handling of a "completed" response for an IN_PROGRESS task makes
\* the task COMPLETED and stores the result of the response on it, whatever
\* the validation of the result says; and the task then stays COMPLETED.
C25_CompletedWhateverTheQuality ==
    [][\A t \in TasksCreated :
          /\ \A m \in inbox \ inbox' :
                (m.task_id = t /\ m.status = "completed" /\ Status(t) = IN_PROGRESS)
                   => /\ Status(t)' = COMPLETED
                      /\ active_tasks'[t].result = ResultOf(m)
          /\ Status(t) = COMPLETED => Status(t)' = COMPLETED]_vars

\* a task is COMPLETED with a result of confidence 0.5, below the threshold;
\* another with an empty result
C25_Witness ==
    \E t \in TasksCreated :
        /\ Status(t) = COMPLETED
        /\ active_tasks[t].result = Result(5)
        /\ ~ValidateTaskResult(active_tasks[t])
        /\ ~ValidateTaskResult([active_tasks[t] EXCEPT !.result = EmptyResult])
        /\ ValidateTaskResult([active_tasks[t] EXCEPT !.result = Result(9)])

\* ----------------------------------------------------- termination claims
\* C26: every created workflow whose step graph is acyclic eventually has a
\* terminal status with its executor returned, whatever the agents do.
C26_AcyclicWorkflowTerminates ==
    (wfStatus # None /\ Acyclic(workflow))
        ~> (wfStatus \in {COMPLETED, FAILED} /\ epc = "done")

\* ----------------------------------------------------- concurrency claims
\* C27: a task whose "completed" response has been delivered is not failed by
\* its timeout monitor while the listener waits out the backoff of another
\* task.
C27_BackoffDoesNotBlockOthers ==
    [][\A t \in TasksCreated :
          (/\ TimeoutWakes(t)
           /\ Status(t) = IN_PROGRESS
           /\ lpc = "backoff" /\ ltask # t
           /\ \E m \in inbox : m.task_id = t /\ m.status = "completed")
             => Status(t)' # FAILED]_vars

\* C28: the timeout monitor started for a dispatch of a task that is no longer
\* the latest dispatch of the task changes neither the task nor any load when
\* it wakes up.
C28_WatchBelongsToItsAttempt ==
    [][\A t \in TasksCreated :
          \A k \in watches[t] \ watches'[t] :
              k < hist[t].dispatches
                 => /\ active_tasks'[t] = active_tasks[t]
                    /\ agent_load' = agent_load]_vars

\* C29: the handling of a task_response for a known task whose status is
\* neither "completed" nor "failed" leaves the task's status and every agent's
\* load as they were.
C29_OtherStatusChangesNothing ==
    [][\A m \in inbox \ inbox' :
          (m.task_id \in TasksCreated /\ m.status \notin {"completed", "failed"})
             => /\ Status(m.task_id)' = Status(m.task_id)
                /\ agent_load' = agent_load]_vars

\* ------------------------------------------------------- executor claims
\* the step of the workflow with the given id
StepOf(id) == workflow[CHOOSE i \in 1..Len(workflow) : workflow[i].id = id]

\* C30: in a workflow execution each step has at most one task, no task is
\* created for a step that is running or completed, and the task of a step
\* has the step's task_type as type and the step's parameters as requirements.
C30_OneTaskPerStep ==
    /\ [](\A id \in StepIds(workflow) : Cardinality(TasksOfStep(id)) <= 1)
    /\ [](\A t \in StepTasks :
             /\ active_tasks[t].type = StepOf(hist[t].step).task_type
             /\ active_tasks[t].requirements = StepOf(hist[t].step).parameters)
    /\ [][\A t \in TaskIds :
             Creates(t) => /\ hist'[t].step \notin completed_steps
                           /\ hist'[t].step \notin Running(step_tasks)]_vars

\* the first step of the fan workflow is completed, the two steps that depend
\* on it are running, and each of the three steps has one task
C30_Witness ==
    /\ workflow = WfFan
    /\ completed_steps = {"S1"}
    /\ Running(step_tasks) = {"S2", "S3"}
    /\ \A id \in StepIds(workflow) : Cardinality(TasksOfStep(id)) = 1

====
